---- MODULE Spec2Model ----
(***************************************************************************)
(* eleECG over-the-air update engine: lib/ota.py (OTAUpdater) driven by    *)
(* lib/ota_manager.py (apply_ota_if_pending, verify_ota_commit,            *)
(* check_and_download_ota) in the boot order of main.py.                   *)
(*                                                                         *)
(* File contents are byte sequences (small naturals), so that the CR LF    *)
(* normalisation and strip() are computed, not assumed.  A version string  *)
(* MAJOR.MINOR.PATCH is the sequence of its three components.              *)
(*                                                                         *)
(* Spec        the engine with faults: power loss, failing writes, damaged *)
(*             transfers, display errors, an unreachable server.           *)
(* FairSpec    Spec, with the device scheduled fairly.                     *)
(* NominalSpec the update of a device when nothing fails, with fairness.   *)
(* CheckSpec   the periodic check against any manifest response.           *)
(* GateSpec    the engine run together with the tasks of main.py that wait *)
(*             on ota_lock.                                                *)
(* HashSpec    the hash of one source file, by the generator and by the    *)
(*             device, for every content up to MaxLen bytes.               *)
(***************************************************************************)
EXTENDS Integers, Sequences, FiniteSets, TLC

\* ---------------------------------------------------------------- bounds
\* Number of releases the update server publishes (release 1 is the one the
\* device ships with).
MaxRelease == 2

\* Longest file content of the hash comparison (HashSpec).
MaxLen == 3

\* Number of faults injected in one behaviour: power losses, failing file
\* writes, damaged transfers, display errors.  (An unreachable network or
\* server is no fault and is not counted.)
MaxFaults == 2

\* ------------------------------------------------------ program constants
max_attempts == 12
fetch_attempts == 3
MIN_FREE_MEM == 102400
FLASH_BUFFER == 16384

\* ------------------------------------------------------------------ bytes
CR == 13
LF == 10
SP == 32

\* The file does not exist (no byte is negative).
NoFile == << -1 >>
\* A file that was opened for writing and never written: empty.
Truncated == << >>
\* Bytes that belong to no release (a damaged transfer, an HTTP error page).
Garbage == << 63 >>

Range(s) == { s[i] : i \in 1..Len(s) }

\* ------------------------------------------------------------------ paths
user_excludedOutputOnly == { "output_info.txt" }

\* OTAUpdater.user_excluded
user_excluded == { "config.json", "output_info.txt" }

Paths == { "main.py", "config.json", "logo.bin", "version.txt" }

\* Orders in which a manifest lists its files (a JSON object: any order, and
\* generate_manifest lists version.txt or not depending on the tree).
ManifestLists ==
    { << "main.py", "config.json", "logo.bin", "version.txt" >>,
      << "logo.bin", "main.py", "config.json" >> }

\* OTAUpdater._should_normalize
_should_normalize(file_path) ==
    file_path \in { "main.py", "config.json", "version.txt" }

\* content.replace(b"\r\n", b"\n")
RECURSIVE ReplaceCRLF(_)
ReplaceCRLF(s) ==
    IF Len(s) = 0 THEN << >>
    ELSE IF Len(s) >= 2 /\ s[1] = CR /\ s[2] = LF
         THEN << LF >> \o ReplaceCRLF(SubSeq(s, 3, Len(s)))
         ELSE << s[1] >> \o ReplaceCRLF(Tail(s))

\* str.strip(): leading and trailing whitespace removed
IsSpace(b) == b \in { CR, LF, SP }

RECURSIVE LStrip(_)
LStrip(s) == IF Len(s) > 0 /\ IsSpace(s[1]) THEN LStrip(Tail(s)) ELSE s

RECURSIVE RStrip(_)
RStrip(s) ==
    IF Len(s) > 0 /\ IsSpace(s[Len(s)]) THEN RStrip(SubSeq(s, 1, Len(s) - 1)) ELSE s

Strip(s) == LStrip(RStrip(s))

\* OTAUpdater._sha256: a collision-free digest of the bytes
_sha256(content) == [ sha256 |-> content ]

\* ----------------------------------------------------------------- server
\* Release r carries version "1.r.0".
Version(r) == << 1, r, 0 >>

\* The bytes of path p in the repository tree of release r, as checked out
\* with LF line ends.
RepoBytes(r, p) ==
    CASE p = "version.txt" -> Version(r)
      [] p = "config.json" -> << 1, LF >>
      [] p = "logo.bin"    -> << r, CR, LF >>
      [] OTHER             -> << r, LF >>

\* The same tree checked out with CR LF line ends (text files only).
RepoBytesCRLF(r, p) ==
    IF p = "main.py" \/ p = "config.json" THEN << RepoBytes(r, p)[1], CR, LF >>
    ELSE RepoBytes(r, p)

FileSize(p) == IF p = "version.txt" THEN 5 ELSE 2

\* The extension of a path.
Ext(p) ==
    CASE p = "main.py" -> ".py"
      [] p = "config.json" -> ".json"
      [] p = "version.txt" -> ".txt"
      [] OTHER -> ".bin"

\* generate_manifest.TEXT_EXTENSIONS
TEXT_EXTENSIONS == { ".py", ".txt", ".json", ".md" }

\* generate_manifest.sha256sum: text files are hashed with CR LF -> LF
sha256sum(p, content) ==
    IF Ext(p) \in TEXT_EXTENSIONS THEN _sha256(ReplaceCRLF(content))
    ELSE _sha256(content)

\* generate_manifest.main: the manifest of release r listing fl
Manifest(r, fl) ==
    [ version |-> Version(r),
      files   |-> fl,
      hashes  |-> [ p \in Range(fl) |-> sha256sum(p, RepoBytes(r, p)) ],
      sizes   |-> [ p \in Range(fl) |-> FileSize(p) ] ]

\* self.manifest = {} and the fields derived from it
EmptyManifest ==
    [ version |-> << >>, files |-> << >>,
      hashes |-> [ p \in {} |-> _sha256(<< >>) ], sizes |-> [ p \in {} |-> 0 ] ]

\* No manifest.json in the staging directory.
AbsentManifest ==
    [ version |-> NoFile, files |-> << >>,
      hashes |-> [ p \in {} |-> _sha256(<< >>) ], sizes |-> [ p \in {} |-> 0 ] ]

\* -------------------------------------------------------------- responses
\* The body of a manifest response.  json: r.json() raises ("undecodable"),
\* gives a value that is no object ("notdict"), or gives an object ("dict").
\* Of an object: versionType is "str", "num" (any non-string) or "missing";
\* filesType is "map", "list" (any other non-empty value), "null" (a falsy
\* value) or "missing"; entryType is "int" when the map has a value that is
\* no container, so that ("sha256" in v) raises, else "dict".  doc holds the
\* object: its version, the keys of its files map, and the sha256 and size
\* fields those entries have (an entry may lack either).
Body(json, versionType, filesType, entryType, doc) ==
    [ json |-> json, versionType |-> versionType, filesType |-> filesType,
      entryType |-> entryType, doc |-> doc ]

WellFormed(m) == Body("dict", "str", "map", "dict", m)

\* Manifest m whose entries noSha have no sha256 field and whose entries
\* noSize have no size field.
Lacking(m, noSha, noSize) ==
    [ m EXCEPT !.hashes = [ p \in (DOMAIN @) \ noSha |-> @[p] ],
               !.sizes = [ p \in (DOMAIN @) \ noSize |-> @[p] ] ]

\* Manifest m without a files map.
NoFiles(m) == [ EmptyManifest EXCEPT !.version = m.version ]

NoBody == Body("undecodable", "missing", "missing", "dict", EmptyManifest)

\* requests.get(manifest_url): status is "error" (the request raised), "200"
\* or another status code.
Response(status, body) == [ status |-> status, body |-> body ]

RequestError == Response("error", NoBody)

\* What the three requests of one check would get: k failing requests, then r.
RECURSIVE After(_, _)
After(k, r) == IF k = 0 THEN << r >> ELSE << RequestError >> \o After(k - 1, r)

Padded(rs) ==
    SubSeq(rs \o [ i \in 1..fetch_attempts |-> RequestError ], 1, fetch_attempts)

\* The server cannot be reached.
Unreachable == Padded(<< >>)

\* Something answers 200 with a body that is no JSON.
Undecodable == Padded(<< Response("200", NoBody) >>)

\* The server answers at once with the manifest of release r.
Served(r, fl) == Padded(<< Response("200", WellFormed(Manifest(r, fl))) >>)

\* What is observed of one periodic cycle: the responses its check got, what
\* the check returned and how many requests it made, and the readings of the
\* resource gate (taken only when the check returned True, else 0).
Call(made, responses, ret, requests, mem_free, free, required) ==
    [ made |-> made, responses |-> responses, ret |-> ret, requests |-> requests,
      mem_free |-> mem_free, free |-> free, required |-> required ]

NoCall == Call(FALSE, Unreachable, FALSE, 0, 0, 0, 0)

\* -------------------------------------------------------------- variables
VARIABLES
    \* flash file system (survives reset and power loss)
    live,            \* "/<path>"          : Paths -> bytes or NoFile
    backup,          \* "/backup/<path>"   : Paths -> bytes or NoFile
    staged,          \* "/update/<path>"   : Paths -> bytes or NoFile
    stagedManifest,  \* "/update/manifest.json"
    flagPending,     \* "ota_pending.flag" exists
    flagCommit,      \* "ota_commit_pending.flag" exists
    \* update server
    serverRel,       \* release currently published
    serverFiles,     \* file order of its manifests
    \* RAM (lost on reset)
    pc,              \* position of the boot sequence / periodic task
    manifest,        \* OTAUpdater.manifest
    files,           \* OTAUpdater.files
    hashes,          \* OTAUpdater.hashes
    sizes,           \* OTAUpdater.sizes
    remote_version,  \* OTAUpdater.remote_version
    progress,        \* OTAUpdater.progress
    idx,             \* loop position in self.files (1-based)
    attempts,        \* verify_ota_commit: attempts
    ota_lock,        \* main.ota_lock is set (gate open)
    tasks,           \* position of each task that waits on ota_lock
    \* history (observers, read by no action guard)
    pre,             \* live tree when the current apply pass started
    owed,            \* version apply_update wrote, while no commit verification
                     \* has started since (else << >>)
    faults,          \* faults injected so far
    dlFailed,        \* a file of the running download session failed
    vExit,           \* how the current verify_ota_commit run left its loop
    rollbackCalls,   \* rollback() calls of the current verify_ota_commit run
    call,            \* the last observed check_for_update call and resource gate
    first,           \* live tree when the pending flag was last created, that
                     \* is before the first apply pass of the staged update
    resets           \* machine.reset() calls of apply_ota_if_pending since the
                     \* pending flag was last created, while a flag is present

vars == << live, backup, staged, stagedManifest, flagPending, flagCommit,
           serverRel, serverFiles, pc, manifest, files, hashes, sizes,
           remote_version, progress, idx, attempts, ota_lock, pre, owed, faults,
           dlFailed, vExit, rollbackCalls, call, first, resets, tasks >>

disk == << live, backup, staged, stagedManifest, flagPending, flagCommit >>
server == << serverRel, serverFiles >>
updater == << manifest, files, hashes, sizes, remote_version, progress >>
history == << pre, owed, faults, dlFailed, vExit, rollbackCalls, call, first,
             resets >>

\* Whether the next write, transfer or display call may be made to fail.
Faulty == IF faults < MaxFaults THEN BOOLEAN ELSE { FALSE }
Inject(fails) == faults' = IF fails THEN faults + 1 ELSE faults

NoTree == [ p \in Paths |-> NoFile ]

\* main.py: the tasks that wait on ota_lock at the top of their loop
GatedTasks == { "drain_sensor_data", "drain_laser_data", "send_to_thingsboard" }

\* Before main() has created them.
NoTasks == [ t \in GatedTasks |-> "none" ]

\* --------------------------------------------------------------- OTAUpdater
\* The statements of check_for_update, download_update, apply_update and
\* rollback at which a failure is injected, each inside a try statement of
\* its method that catches Exception (or everything):
\*   manifest_request  requests.get of the manifest     ota.py 78-87
\*   manifest_json     r.json()                         97-101
\*   manifest_entries  the files map is read            74, 117-118, 137-141
\*   file_download     request, write, hash of a file   157-176
\*   manifest_save     json.dump of the manifest copy   178-184
\*   manifest_load     json.load of the staged copy     190-203
\*   backup            os.stat and copy live -> backup  219-227
\*   copy              copy staged -> live              228-236
\*   version_write     write of version.txt             238-243
\*   restore           copy backup -> live              278-283
Sites ==
    { "manifest_request", "manifest_json", "manifest_entries", "file_download",
      "manifest_save", "manifest_load", "backup", "copy", "version_write",
      "restore" }

CatchesOutsideLoops(site) == site \in Sites \ { "file_download", "restore" }

\* An exception raised at site is caught inside the method.
Catches(site) == site \in Sites

\* Where control is after an exception at site: at next, the position the
\* method's handler leads to, or out of the method and of the task that
\* called it ("raised").
Handled(site, next) == IF Catches(site) THEN next ELSE "raised"

\* OTAUpdater._get_local_version / ota_manager.get_local_version
_get_local_version(lv) ==
    IF lv["version.txt"] = NoFile THEN << 0, 0, 0 >> ELSE Strip(lv["version.txt"])

\* OTAUpdater.rollback, the loop: every listed, non-excluded file whose backup
\* copy can be opened is copied back over the live file.
RollbackFiles(fl, lv, bk) ==
    [ p \in Paths |->
        IF p \in Range(fl) /\ p \notin user_excluded /\ bk[p] # NoFile
        THEN bk[p] ELSE lv[p] ]

\* rollback, lines 278-283: the backup copy of some listed file cannot be
\* opened
RestoreRaises(fl, bk) == \E p \in Range(fl) \ user_excluded : bk[p] = NoFile

RollbackPendingKept(fp) == fp

\* OTAUpdater.rollback, lines 284-289: whether the pending flag exists after
\* rollback (it is removed when present)
RollbackPending(fp) == FALSE

\* OTAUpdater.__init__: the session fields of a fresh updater
NewUpdater ==
    /\ manifest' = EmptyManifest
    /\ files' = << >>
    /\ hashes' = EmptyManifest.hashes
    /\ sizes' = EmptyManifest.sizes
    /\ remote_version' = << >>
    /\ progress' = 0

\* ------------------------------------------------------------------- Init
\* Release 1 is installed.  logo.bin may not exist yet (a file a later
\* release adds); the backup directory is empty or holds the copies an
\* earlier update (from release 0) left there.
InitLive(hasLogo) ==
    [ p \in Paths |->
        CASE p = "version.txt" -> Version(1)
          [] p = "config.json" -> << 7, LF >>
          [] p = "logo.bin"    -> IF hasLogo THEN RepoBytes(1, p) ELSE NoFile
          [] OTHER             -> RepoBytes(1, p) ]

InitBackup(stale) ==
    [ p \in Paths |-> IF p \in stale THEN RepoBytes(0, p) ELSE NoFile ]

InitBackups == { {}, { "main.py", "logo.bin", "version.txt" } }

\* The device after its first boot, while the server publishes release rel,
\* with f faults already spent.
InitState(rel, f) ==
    /\ \E hasLogo \in BOOLEAN : live = InitLive(hasLogo)
    /\ \E stale \in InitBackups : backup = InitBackup(stale)
    /\ staged = NoTree
    /\ stagedManifest = AbsentManifest
    /\ flagPending = FALSE
    /\ flagCommit = FALSE
    /\ serverRel = rel
    /\ serverFiles \in ManifestLists
    /\ pc = "boot"
    /\ manifest = EmptyManifest
    /\ files = << >>
    /\ hashes = EmptyManifest.hashes
    /\ sizes = EmptyManifest.sizes
    /\ remote_version = << >>
    /\ progress = 0
    /\ idx = 0
    /\ attempts = 0
    /\ ota_lock = TRUE
    /\ tasks = NoTasks
    /\ pre = NoTree
    /\ owed = << >>
    /\ faults = f
    /\ dlFailed = FALSE
    /\ vExit = "none"
    /\ rollbackCalls = 0
    /\ call = NoCall
    /\ first = NoTree
    /\ resets = 0

Init == InitState(1, 0)


\* reset / power loss: RAM is lost, the flash file system is kept
ResetRam ==
    /\ pc' = "boot"
    /\ NewUpdater
    /\ idx' = 0
    /\ attempts' = 0
    /\ ota_lock' = TRUE
    /\ pre' = NoTree
    /\ vExit' = "none"
    /\ rollbackCalls' = 0
    /\ dlFailed' = FALSE
    /\ tasks' = NoTasks

\* ------------------------------------------------ apply_ota_if_pending
\* ota_manager.apply_ota_if_pending, lines 39-44: return when no pending
\* flag, else construct an updater and enter apply_update.
ApplyIfPending ==
    /\ pc = "boot"
    /\ IF flagPending
       THEN /\ pc' = "apply_load"
            /\ pre' = live
       ELSE /\ pc' = "verify"
            /\ UNCHANGED pre
    /\ NewUpdater
    /\ UNCHANGED << disk, server, idx, attempts, ota_lock, owed, faults, dlFailed,
                    vExit, rollbackCalls, call, tasks, first,
                    resets >>

ManifestLoadsAlways(m) == TRUE

\* json.load of the staged manifest copy succeeds, and every entry has the
\* sha256 and size fields lines 195-196 read
ManifestLoads(m) ==
    /\ m.version # NoFile /\ m.version # Garbage
    /\ Range(m.files) \subseteq (DOMAIN m.hashes) \cap (DOMAIN m.sizes)

\* apply_update, lines 190-209: load the staged manifest copy
ApplyLoad ==
    /\ pc = "apply_load"
    /\ IF ManifestLoads(stagedManifest)
       THEN /\ manifest' = stagedManifest
            /\ remote_version' = stagedManifest.version
            /\ hashes' = stagedManifest.hashes
            /\ sizes' = stagedManifest.sizes
            /\ files' = stagedManifest.files
            /\ progress' = progress
            /\ pc' = IF stagedManifest.version = << >> THEN "apply_failed" ELSE "apply_loop"
            /\ idx' = 1
       ELSE /\ pc' = Handled("manifest_load", "apply_failed")
            /\ UNCHANGED << updater, idx >>
    /\ UNCHANGED << disk, server, attempts, ota_lock, history, tasks >>

\* apply_update, lines 212-214: a user-preserved file is skipped
ApplySkipExcluded ==
    /\ pc = "apply_loop"
    /\ idx <= Len(files)
    /\ files[idx] \in user_excluded
    /\ idx' = idx + 1
    /\ UNCHANGED << disk, server, pc, updater, attempts, ota_lock, history, tasks >>

\* apply_update, lines 219-227: the backup directory after the backup attempt
\* of file f.  A missing live file is not backed up; a failing copy (the
\* backup file cannot be opened for writing) is logged and leaves the backup
\* directory as it was.
BackupOutcome(f, lv, bk, fails) ==
    IF lv[f] = NoFile \/ fails THEN bk ELSE [ bk EXCEPT ![f] = lv[f] ]

ApplyBackup ==
    /\ pc = "apply_loop"
    /\ idx <= Len(files)
    /\ files[idx] \notin user_excluded
    /\ \E fails \in Faulty :
         /\ backup' = BackupOutcome(files[idx], live, backup, fails)
         /\ Inject(fails)
         /\ pc' = IF fails \/ live[files[idx]] = NoFile
                  THEN Handled("backup", "apply_copy") ELSE "apply_copy"
    /\ UNCHANGED << live, staged, stagedManifest, flagPending, flagCommit, server,
                    updater, idx, attempts, ota_lock, pre, owed, dlFailed, vExit,
                    rollbackCalls, call, tasks, first,
                    resets >>

\* apply_update, lines 228-236: copy staged -> live; any exception calls
\* rollback() and returns False.  A failing copy leaves the live file as it
\* was (the staged file could not be opened) or emptied (the write failed).
CopyFailure(f, lv, st) ==
    IF st[f] = NoFile THEN lv ELSE [ lv EXCEPT ![f] = Truncated ]

ApplyCopy ==
    /\ pc = "apply_copy"
    /\ LET f == files[idx] IN
       \/ /\ staged[f] # NoFile
          /\ live' = [ live EXCEPT ![f] = staged[f] ]
          /\ idx' = idx + 1
          /\ pc' = "apply_loop"
          /\ UNCHANGED << flagPending, faults >>
       \/ /\ staged[f] = NoFile \/ TRUE \in Faulty
          /\ Inject(staged[f] # NoFile)
          /\ live' = RollbackFiles(files, CopyFailure(f, live, staged), backup)
          /\ flagPending' = RollbackPending(flagPending)
          /\ pc' = Handled("copy", "apply_rolled_back")
          /\ UNCHANGED idx
    /\ UNCHANGED << backup, staged, stagedManifest, flagCommit, server, updater,
                    attempts, ota_lock, pre, owed, dlFailed, vExit, rollbackCalls, call, tasks, first,
                    resets >>

VersionWriteSkipped(lv, v, fails) == lv

\* apply_update, lines 238-257: write the version record (a failure is only
\* logged).  The copy of manifest.json to the root is not tracked.
VersionWrite(lv, v, fails) ==
    [ lv EXCEPT !["version.txt"] = IF fails THEN Truncated ELSE v ]

ApplyVersion ==
    /\ pc = "apply_loop"
    /\ idx > Len(files)
    /\ \E fails \in Faulty :
         /\ live' = VersionWrite(live, remote_version, fails)
         /\ Inject(fails)
         /\ pc' = IF fails THEN Handled("version_write", "apply_cleanup")
                  ELSE "apply_cleanup"
    /\ owed' = IF live'["version.txt"] = remote_version THEN remote_version ELSE owed
    /\ UNCHANGED << backup, staged, stagedManifest, flagPending, flagCommit, server,
                    updater, idx, attempts, ota_lock, pre, dlFailed, vExit, rollbackCalls, call, tasks, first,
                    resets >>

\* OTAUpdater.cleanup, lines 309-314: the staging tree is removed; a failure
\* (os.listdir of the staging directory raises) is only logged and leaves the
\* tree as it was
Removed(fails) == ~ fails

\* apply_update, line 259, and OTAUpdater.cleanup: remove the staging tree
ApplyCleanup ==
    /\ pc = "apply_cleanup"
    /\ \E fails \in Faulty :
         /\ staged' = IF Removed(fails) THEN NoTree ELSE staged
         /\ stagedManifest' = IF Removed(fails) THEN AbsentManifest ELSE stagedManifest
         /\ Inject(fails)
    /\ pc' = "apply_rename"
    /\ UNCHANGED << live, backup, flagPending, flagCommit, server, updater, idx,
                    attempts, ota_lock, pre, owed, dlFailed, vExit, rollbackCalls,
                    call, first, resets, tasks >>

\* apply_update, lines 261-267, then apply_ota_if_pending, lines 45-46:
\* rename pending -> commit-pending (a failure is only logged), return True,
\* machine.reset()
ApplyRename ==
    /\ pc = "apply_rename"
    /\ \E fails \in Faulty :
         /\ IF flagPending /\ ~ fails
            THEN flagPending' = FALSE /\ flagCommit' = TRUE
            ELSE UNCHANGED << flagPending, flagCommit >>
         /\ Inject(fails)
    /\ resets' = resets + 1
    /\ ResetRam
    /\ UNCHANGED << live, backup, staged, stagedManifest, server, owed, call, first >>

\* apply_ota_if_pending, line 49: apply_update returned False -> rollback()
ApplyFailedRollback ==
    /\ pc \in { "apply_failed", "apply_rolled_back" }
    /\ live' = RollbackFiles(files, live, backup)
    /\ flagPending' = RollbackPending(flagPending)
    /\ pc' = IF RestoreRaises(files, backup)
             THEN Handled("restore", "aip_rolled_back") ELSE "aip_rolled_back"
    /\ UNCHANGED << backup, staged, stagedManifest, flagCommit, server, updater,
                    idx, attempts, ota_lock, history, tasks >>

cleanup_flagsPendingOnly ==
    /\ flagPending' = FALSE
    /\ flagCommit' = flagCommit

\* OTAUpdater.cleanup_flags
cleanup_flags ==
    /\ flagPending' = FALSE
    /\ flagCommit' = FALSE

\* apply_ota_if_pending, line 50
ApplyCleanupFlags ==
    /\ pc = "aip_rolled_back"
    /\ cleanup_flags
    /\ pc' = "aip_flags_cleared"
    /\ UNCHANGED << live, backup, staged, stagedManifest, server, updater, idx,
                    attempts, ota_lock, history, tasks >>

\* apply_ota_if_pending, line 51, and its return to main
ApplyFailedReturn ==
    /\ pc = "aip_flags_cleared"
    /\ pc' = "verify"
    /\ idx' = 0
    /\ pre' = NoTree
    /\ UNCHANGED << disk, server, updater, attempts, ota_lock, owed, faults,
                    dlFailed, vExit, rollbackCalls, call, tasks, first,
                    resets >>


\* ------------------------------------------------------ check_for_update
FetchRetriesStatus(responses) ==
    LET RECURSIVE Try(_)
        Try(attempt) ==
            IF attempt > fetch_attempts
            THEN [ requests |-> fetch_attempts, status |-> "error", body |-> NoBody ]
            ELSE IF responses[attempt].status # "200"
                 THEN Try(attempt + 1)
                 ELSE [ requests |-> attempt, status |-> "200",
                        body |-> responses[attempt].body ]
    IN Try(1)

\* lines 76-94: the manifest is requested up to three times; a request that
\* raises is retried, any response ends the loop.
Fetch(responses) ==
    LET RECURSIVE Try(_)
        Try(attempt) ==
            IF attempt > fetch_attempts
            THEN [ requests |-> fetch_attempts, status |-> "error", body |-> NoBody ]
            ELSE IF responses[attempt].status = "error"
                 THEN Try(attempt + 1)
                 ELSE [ requests |-> attempt, status |-> responses[attempt].status,
                        body |-> responses[attempt].body ]
    IN Try(1)

Outcome(m, fl, hs, sz, rv, ret, requests) ==
    [ manifest |-> m, files |-> fl, hashes |-> hs, sizes |-> sz,
      remote_version |-> rv, ret |-> ret, requests |-> requests ]

\* lines 117-119: the entries that have a sha256 field, in the order of the map
ListedFiles(doc) == SelectSeq(doc.files, LAMBDA p : p \in DOMAIN doc.hashes)

UpdateRequiredNewer(remote, local) ==
    Len(remote) = 3 /\ Len(local) = 3 /\ remote[2] > local[2]

UpdateRequiredAlways(remote, local) == TRUE

\* lines 130-135: the comparison of the remote with the local version
UpdateRequired(remote, local) == remote # local

\* What one call of check_for_update leaves in the session fields (cur holds
\* them before the call), what it returns (ret) and how many requests it
\* made, given what its requests get and the local version.
check_for_update(responses, cur, local) ==
    LET got == Fetch(responses)
        b == got.body
        doc == b.doc
        rv == IF b.versionType = "missing" THEN << >> ELSE doc.version
        map == b.filesType = "map"
    IN CASE got.status # "200" \/ b.json = "undecodable" ->
              Outcome(cur.manifest, cur.files, cur.hashes, cur.sizes,
                      cur.remote_version, FALSE, got.requests)
         [] got.status = "200" /\ b.json = "notdict" ->
              Outcome(doc, cur.files, cur.hashes, cur.sizes,
                      cur.remote_version, FALSE, got.requests)
         [] got.status = "200" /\ b.json = "dict"
                /\ (b.versionType # "str" \/ rv = << >> \/ b.filesType = "list") ->
              Outcome(doc, cur.files, cur.hashes, cur.sizes, rv, FALSE, got.requests)
         [] got.status = "200" /\ b.json = "dict" /\ b.versionType = "str"
                /\ rv # << >> /\ map /\ b.entryType = "int" ->
              Outcome(doc, << >>, cur.hashes, cur.sizes, << >>, FALSE, got.requests)
         [] OTHER ->
              Outcome(doc,
                      IF map THEN ListedFiles(doc) ELSE << >>,
                      IF map THEN doc.hashes ELSE EmptyManifest.hashes,
                      IF map THEN doc.sizes ELSE EmptyManifest.sizes,
                      rv, UpdateRequired(rv, local), got.requests)

\* An exception leaves check_for_update: a request raised, r.json() raised,
\* or an entry of the files map is no container, and no try caught it.
CheckRaises(responses) ==
    LET got == Fetch(responses)
        b == got.body
    IN \/ /\ \E i \in 1..got.requests : responses[i].status = "error"
          /\ ~ Catches("manifest_request")
       \/ /\ got.status = "200" /\ b.json = "undecodable"
          /\ ~ Catches("manifest_json")
       \/ /\ got.status = "200" /\ b.json = "dict" /\ b.versionType = "str"
          /\ b.doc.version # << >> /\ b.filesType = "map" /\ b.entryType = "int"
          /\ ~ Catches("manifest_entries")

Session ==
    [ manifest |-> manifest, files |-> files, hashes |-> hashes, sizes |-> sizes,
      remote_version |-> remote_version ]

SetSession(s) ==
    /\ manifest' = s.manifest
    /\ files' = s.files
    /\ hashes' = s.hashes
    /\ sizes' = s.sizes
    /\ remote_version' = s.remote_version
    /\ progress' = progress

\* ------------------------------------------------------ verify_ota_commit
\* lines 55-64: no commit-pending flag -> return; else close the gate
VerifyStart ==
    /\ pc = "verify"
    /\ NewUpdater
    /\ IF flagCommit
       THEN /\ pc' = "verify_loop"
            /\ ota_lock' = FALSE
            /\ owed' = << >>
       ELSE /\ pc' = "periodic"
            /\ UNCHANGED << ota_lock, owed >>
    /\ attempts' = 0
    /\ first' = IF flagPending THEN first ELSE NoTree
    /\ resets' = IF flagPending \/ flagCommit THEN resets ELSE 0
    /\ UNCHANGED << disk, server, idx, pre, faults, dlFailed, vExit, rollbackCalls,
                    call, tasks >>

VerifyLoopExitEarly(a) == a >= max_attempts - 1

\* line 67: while attempts < max_attempts
VerifyLoopExit(a) == a >= max_attempts

\* lines 67-105, one pass of the loop.  what is
\*   "display": a display.show_message before the comparison raises (the
\*              except of line 113 is taken, the loop is left),
\*   "nowifi" : online_lock.wait() times out,
\*   "timeout": check_for_update times out,
\*   "check"  : check_for_update returns (its requests get responses), then
\*              local is compared to remote; raises: the show_message after
\*              the comparison (line 91 or 95) raises.
VerifyPass(what, responses, raises) ==
    LET s == check_for_update(responses, Session, _get_local_version(live))
        compared == what = "check"
        verified == compared /\ _get_local_version(live) = s.remote_version
        thrown == what = "display" \/ (compared /\ raises)
    IN /\ IF compared THEN SetSession(s) ELSE UNCHANGED updater
       /\ IF verified THEN cleanup_flags ELSE UNCHANGED << flagPending, flagCommit >>
       /\ attempts' = IF thrown \/ verified THEN attempts ELSE attempts + 1
       /\ pc' = IF thrown \/ verified THEN "verify_finally" ELSE "verify_loop"
       /\ vExit' = CASE verified -> "success"
                     [] thrown   -> "exception"
                     [] OTHER    -> vExit
       /\ thrown => TRUE \in Faulty
       /\ Inject(thrown)
       /\ UNCHANGED << live, backup, staged, stagedManifest, server, idx, ota_lock,
                       pre, owed, dlFailed, rollbackCalls, call, tasks, first,
                    resets >>

VerifyAttempt ==
    /\ pc = "verify_loop"
    /\ ~ VerifyLoopExit(attempts)
    /\ \E what \in { "display", "nowifi", "timeout", "check" },
          responses \in { Unreachable, Served(serverRel, serverFiles) },
          raises \in BOOLEAN :
         /\ what # "check" => (responses = Unreachable /\ ~ raises)
         /\ VerifyPass(what, responses, raises)

\* lines 107-110: attempts exhausted -> rollback(); when the
\* display.show_message of line 109 raises, the except of line 113 is taken
\* instead and rollback() is not called
VerifyExhausted ==
    /\ pc = "verify_loop"
    /\ VerifyLoopExit(attempts)
    /\ \E raises \in Faulty :
         /\ Inject(raises)
         /\ live' = IF raises THEN live ELSE RollbackFiles(files, live, backup)
         /\ flagPending' = IF raises THEN flagPending ELSE RollbackPending(flagPending)
         /\ rollbackCalls' = IF raises THEN rollbackCalls ELSE rollbackCalls + 1
         /\ vExit' = IF raises THEN "exception" ELSE "exhausted"
         /\ pc' = IF raises THEN "verify_finally" ELSE "verify_rolled_back"
    /\ UNCHANGED << backup, staged, stagedManifest, flagCommit, server, updater, idx,
                    attempts, ota_lock, pre, owed, dlFailed, call, tasks, first,
                    resets >>

\* line 111: cleanup_flags()
VerifyCleanupFlags ==
    /\ pc = "verify_rolled_back"
    /\ cleanup_flags
    /\ pc' = "verify_finally"
    /\ UNCHANGED << live, backup, staged, stagedManifest, server, updater, idx,
                    attempts, ota_lock, history, tasks >>

FinallySetSkipped(lock) == lock

\* finally: ota_lock.set() (verify_ota_commit, lines 117-118;
\* check_and_download_ota, lines 154-155): the gate after the finally clause
FinallySet(lock) == TRUE

\* lines 117-118, the return to main, and main's start of the periodic task
\* (check_and_download_ota, line 123: its own updater)
VerifyFinally ==
    /\ pc = "verify_finally"
    /\ ota_lock' = FinallySet(ota_lock)
    /\ pc' = "periodic"
    /\ NewUpdater
    /\ attempts' = 0
    /\ vExit' = "none"
    /\ rollbackCalls' = 0
    /\ UNCHANGED << disk, server, idx, pre, owed, faults, dlFailed, call, tasks, first,
                    resets >>


\* ------------------------------------------------- check_and_download_ota
\* OTAUpdater.get_required_flash_bytes
get_required_flash_bytes(fl, sz) ==
    LET RECURSIVE Sum(_)
        Sum(i) == IF i = 0 THEN 0
                  ELSE Sum(i - 1) + (IF fl[i] \in DOMAIN sz THEN sz[fl[i]] ELSE 0)
    IN 2 * Sum(Len(fl))

ResourcesOkStrict(mem_free, free, required) ==
    mem_free >= MIN_FREE_MEM /\ ~ (free <= required + FLASH_BUFFER)

\* lines 132-137: the resource gate
ResourcesOk(mem_free, free, required) ==
    mem_free >= MIN_FREE_MEM /\ ~ (free < required + FLASH_BUFFER)

\* lines 124-139 and 157-165, one periodic cycle up to the start of the
\* download.  online: online_lock.wait() returns in time; responses: what the
\* requests of check_for_update get; mem_free and free are what gc.mem_free()
\* and os.statvfs report (free as its distance from required + FLASH_BUFFER).
\* The task catches asyncio.TimeoutError only (line 162): any exception that
\* left check_for_update would end it.
CycleStep(online, responses, mem_free, slack, observed) ==
    LET s == check_for_update(responses, Session, _get_local_version(live))
        required == get_required_flash_bytes(s.files, s.sizes)
        free == required + FLASH_BUFFER + slack
        go == online /\ s.ret /\ ResourcesOk(mem_free, free, required)
    IN /\ IF online THEN SetSession(s) ELSE UNCHANGED updater
       /\ pc' = IF online /\ CheckRaises(responses) THEN "raised"
                ELSE IF go THEN "download" ELSE "periodic"
       /\ idx' = IF go THEN 1 ELSE idx
       /\ ota_lock' = IF go THEN FALSE ELSE ota_lock
       /\ call' = IF observed /\ online
                  THEN IF s.ret
                       THEN Call(TRUE, responses, TRUE, s.requests, mem_free, free,
                                 required)
                       ELSE Call(TRUE, responses, FALSE, s.requests, 0, 0, 0)
                  ELSE call
       /\ UNCHANGED << disk, server, attempts, pre, owed, faults, dlFailed, vExit,
                       rollbackCalls, tasks, first,
                    resets >>

Cycle ==
    /\ pc = "periodic"
    /\ \E online \in BOOLEAN,
          responses \in { Unreachable, Undecodable,
                           Served(serverRel, serverFiles) },
          mem_free \in { MIN_FREE_MEM - 1, MIN_FREE_MEM },
          slack \in { -1, 0 } :
         CycleStep(online, responses, mem_free, slack, FALSE)

\* What a file request can deliver for path p while release r is published:
\* the repository bytes with either line-end convention, or something else.
WireBytes(r, p) == { RepoBytes(r, p), RepoBytesCRLF(r, p), Garbage }

StagedBytesRaw(file, content) == content

\* download_update, lines 161-165: the bytes written to the staging path
StagedBytes(file, content) ==
    IF _should_normalize(file) THEN ReplaceCRLF(content) ELSE content

HashMatchesAlways(actual_hash, expected_hash) == TRUE

\* download_update, lines 166-168
HashMatches(actual_hash, expected_hash) == actual_hash = expected_hash

AfterDownloadIgnored(ok) == "download_ok"

AfterDownloadContinues(ok) == IF ok THEN "download_ok" ELSE "download"

\* check_and_download_ota, lines 142 and 151: the branch on the result
AfterDownload(ok) == IF ok THEN "download_ok" ELSE "download_failed"

\* download_update, line 172, after the file at position done (counted from
\* 1) of total: int((done / total) * 100), the percentage cut to an integer.
Progress(done, total) == (100 * done) \div total

\* download_update, lines 152-176, one file.  content is what the request
\* delivers, NoFile when it raises (return False); the bytes are staged and
\* hashed (mismatch: return False).
DownloadOne(file, content) ==
    LET ok == /\ content # NoFile
              /\ HashMatches(_sha256(StagedBytes(file, content)), hashes[file])
    IN /\ staged' = IF content = NoFile THEN staged
                    ELSE [ staged EXCEPT ![file] = StagedBytes(file, content) ]
       /\ dlFailed' = ~ ok
       /\ pc' = IF ok THEN "download"
                ELSE IF content = NoFile
                     THEN Handled("file_download", AfterDownload(FALSE))
                     ELSE AfterDownload(FALSE)
       /\ idx' = IF ok THEN idx + 1 ELSE idx
       /\ progress' = IF ok THEN Progress(idx, Len(files)) ELSE progress
       /\ content = Garbage => TRUE \in Faulty
       /\ Inject(content = Garbage)
       /\ UNCHANGED << live, backup, stagedManifest, flagPending, flagCommit, server,
                       manifest, files, hashes, sizes, remote_version, attempts,
                       ota_lock, pre, owed, vExit, rollbackCalls, call, tasks, first,
                    resets >>

DownloadFile ==
    /\ pc = "download"
    /\ idx <= Len(files)
    /\ \E content \in WireBytes(serverRel, files[idx]) \cup { NoFile } :
         DownloadOne(files[idx], content)

\* An unreadable manifest.json in the staging directory (a write that broke
\* off).
BrokenManifest ==
    [ version |-> Garbage, files |-> << >>,
      hashes |-> [ p \in {} |-> _sha256(<< >>) ], sizes |-> [ p \in {} |-> 0 ] ]

SavedManifestKept(cur, m, fails) == cur

\* download_update, lines 178-181: json.dump of the session's manifest over
\* the staged copy cur; a write that fails leaves an unreadable file
SavedManifest(cur, m, fails) == IF fails THEN BrokenManifest ELSE m

\* download_update, lines 178-186: save the manifest copy, return True; a
\* failing write returns False
DownloadManifest ==
    /\ pc = "download"
    /\ idx > Len(files)
    /\ \E fails \in Faulty :
         /\ stagedManifest' = SavedManifest(stagedManifest, manifest, fails)
         /\ pc' = IF fails THEN Handled("manifest_save", AfterDownload(FALSE))
                  ELSE AfterDownload(TRUE)
         /\ Inject(fails)
    /\ UNCHANGED << live, backup, staged, flagPending, flagCommit, server, updater,
                    idx, attempts, ota_lock, pre, owed, dlFailed, vExit, rollbackCalls, call, tasks, first,
                    resets >>

\* check_and_download_ota, lines 151-156 and 165: download failed
DownloadFailed ==
    /\ pc = "download_failed"
    /\ ota_lock' = FinallySet(ota_lock)
    /\ dlFailed' = FALSE
    /\ pc' = "periodic"
    /\ UNCHANGED << disk, server, updater, idx, attempts, pre, owed, faults,
                    vExit, rollbackCalls, call, tasks, first,
                    resets >>

\* check_and_download_ota, lines 143-145: write the pending flag.  When the
\* write fails (open raised: no file; f.write raised: an empty file) the
\* exception passes the finally of lines 154-156, which sets the gate, and
\* the except of line 162, which catches asyncio.TimeoutError only: the
\* task ends ("task_ended").
WriteFlag ==
    /\ pc = "download_ok"
    /\ \E fails \in Faulty, created \in BOOLEAN :
         /\ ~ fails => created
         /\ Inject(fails)
         /\ flagPending' = (flagPending \/ created)
         /\ pc' = IF fails THEN "task_ended" ELSE "reboot_wait"
         /\ ota_lock' = IF fails THEN FinallySet(ota_lock) ELSE ota_lock
         /\ first' = IF created /\ ~ flagPending THEN live ELSE first
         /\ resets' = IF created /\ ~ flagPending THEN 0 ELSE resets
    /\ UNCHANGED << live, backup, staged, stagedManifest, flagCommit, server,
                    updater, idx, attempts, pre, owed, dlFailed, vExit,
                    rollbackCalls, call, tasks >>

\* check_and_download_ota, lines 146-150: countdown, machine.reset()
Reboot ==
    /\ pc = "reboot_wait"
    /\ ResetRam
    /\ UNCHANGED << disk, server, owed, faults, call, first,
                    resets >>

\* ------------------------------------------------------------ environment
\* The server publishes the next release.
Publish ==
    /\ serverRel < MaxRelease
    /\ serverRel' = serverRel + 1
    /\ UNCHANGED << disk, serverFiles, pc, updater, idx, attempts, ota_lock, history, tasks >>

\* Power is lost and the device boots again.
PowerLoss ==
    /\ pc \notin { "boot", "reboot_wait" }
    /\ faults < MaxFaults
    /\ faults' = faults + 1
    /\ ResetRam
    /\ UNCHANGED << disk, server, owed, call, first,
                    resets >>

Next ==
    \/ ApplyIfPending \/ ApplyLoad \/ ApplySkipExcluded \/ ApplyBackup \/ ApplyCopy
    \/ ApplyVersion \/ ApplyCleanup \/ ApplyRename
    \/ ApplyFailedRollback \/ ApplyCleanupFlags \/ ApplyFailedReturn
    \/ VerifyStart \/ VerifyAttempt \/ VerifyExhausted \/ VerifyCleanupFlags
    \/ VerifyFinally
    \/ Cycle \/ DownloadFile \/ DownloadManifest \/ DownloadFailed \/ WriteFlag
    \/ Reboot
    \/ Publish \/ PowerLoss

Spec == Init /\ [][Next]_vars

\* The steps of the device itself: the boot sequence and the periodic task.
DeviceNext ==
    \/ ApplyIfPending \/ ApplyLoad \/ ApplySkipExcluded \/ ApplyBackup \/ ApplyCopy
    \/ ApplyVersion \/ ApplyCleanup \/ ApplyRename
    \/ ApplyFailedRollback \/ ApplyCleanupFlags \/ ApplyFailedReturn
    \/ VerifyStart \/ VerifyAttempt \/ VerifyExhausted \/ VerifyCleanupFlags
    \/ VerifyFinally
    \/ Cycle \/ DownloadFile \/ DownloadManifest \/ DownloadFailed \/ WriteFlag
    \/ Reboot

\* The engine with faults, where the device keeps running: uasyncio runs
\* every ready task, every sleep ends, every request returns or raises, and
\* machine.reset() boots again.  Nothing is assumed of the server or of power.
FairSpec == Init /\ [][Next]_vars /\ WF_vars(DeviceNext)


\* ------------------------------------------------------------ nominal run
\* The update of a device to a newer published release when nothing fails:
\* no fault is injected, the device is online, every request is answered,
\* every file arrives as published (with either line-end convention) and
\* memory and flash suffice.  The failure branches are never entered in such
\* a run; a run that needed one stops and never completes the update.
NominalInit == \E rel \in 2..MaxRelease : InitState(rel, MaxFaults)

NominalCycle ==
    /\ pc = "periodic"
    /\ CycleStep(TRUE, Served(serverRel, serverFiles), MIN_FREE_MEM, 0, FALSE)

NominalDownloadFile ==
    /\ pc = "download"
    /\ idx <= Len(files)
    /\ \E content \in { RepoBytes(serverRel, files[idx]),
                        RepoBytesCRLF(serverRel, files[idx]) } :
         DownloadOne(files[idx], content)

NominalVerifyAttempt ==
    /\ pc = "verify_loop"
    /\ ~ VerifyLoopExit(attempts)
    /\ VerifyPass("check", Served(serverRel, serverFiles), FALSE)

NominalNext ==
    \/ ApplyIfPending \/ ApplyLoad \/ ApplySkipExcluded \/ ApplyBackup \/ ApplyCopy
    \/ ApplyVersion \/ ApplyCleanup \/ ApplyRename
    \/ VerifyStart \/ NominalVerifyAttempt \/ VerifyFinally
    \/ NominalCycle \/ NominalDownloadFile \/ DownloadManifest \/ WriteFlag
    \/ Reboot

\* The boot sequence and the periodic task are scheduled for as long as they
\* can run (uasyncio runs every ready task; machine.reset() boots again).
NominalSpec == NominalInit /\ [][NominalNext]_vars /\ WF_vars(NominalNext)

\* ---------------------------------------------------- manifest checking
\* The periodic task of a device that booted with no flag, against a server
\* (or whatever answers in its place) that may send any response: an error
\* status, a body that does not decode, or a manifest object with missing or
\* malformed parts, or a manifest whose version is below the installed one or
\* has fewer components.  Every cycle is observed in call.
CheckBodies(m) ==
    { WellFormed(m),
      WellFormed([ m EXCEPT !.version = Version(0) ]),
      WellFormed([ m EXCEPT !.version = << 1, 1 >> ]),
      WellFormed(Lacking(m, { "logo.bin" }, { })),
      WellFormed(Lacking(m, { }, { "main.py" })),
      WellFormed(Lacking(m, { "main.py" }, { "main.py" })),
      Body("dict", "missing", "map", "dict", [ m EXCEPT !.version = << >> ]),
      Body("dict", "str", "map", "dict", [ m EXCEPT !.version = << >> ]),
      Body("dict", "num", "map", "dict", [ m EXCEPT !.version = << 2 >> ]),
      Body("dict", "str", "missing", "dict", NoFiles(m)),
      Body("dict", "str", "null", "dict", NoFiles(m)),
      Body("dict", "str", "list", "dict", NoFiles(m)),
      Body("dict", "str", "map", "int", m),
      Body("notdict", "missing", "missing", "dict", BrokenManifest),
      NoBody }

\* What the requests of one check get: up to three failing requests and then
\* an error status or the well-formed manifest, or at once one of the bodies.
CheckResponses(m) ==
    { Padded(After(k, r)) :
        k \in 0..fetch_attempts,
        r \in { Response("404", NoBody), Response("200", WellFormed(m)) } }
    \cup { Padded(<< Response("200", b) >>) : b \in CheckBodies(m) }

CheckCycle ==
    /\ pc = "periodic"
    /\ \E responses \in CheckResponses(Manifest(serverRel, serverFiles)),
          mem_free \in { MIN_FREE_MEM - 1, MIN_FREE_MEM },
          slack \in { -1, 0 } :
         CycleStep(TRUE, responses, mem_free, slack, TRUE)

CheckNext ==
    \/ ApplyIfPending \/ VerifyStart
    \/ CheckCycle
    \/ Publish

\* The device ships with logo.bin and an empty backup directory.
CheckInit == Init /\ live = InitLive(TRUE) /\ backup = InitBackup({ })

CheckSpec == CheckInit /\ [][CheckNext]_vars

\* ------------------------------------------------------------ gated tasks
\* The tasks of main.py that wait on ota_lock, run together with the boot
\* sequence and the periodic task.  uasyncio runs one task at a time and
\* changes task only where the running one suspends, so a task moves from
\* one suspension to the next in one step.  Positions: "gate" (waiting in
\* ota_lock.wait()), "measure" (drain_laser_data suspended inside
\* laser.measure_and_log), "sleep" (the sleep that ends an iteration).
\* The periodic task is suspended, so that another task can run: in the
\* sleep between two cycles (ota_manager.py line 165), in the sleep of
\* download_update after a staged file (ota.py line 173), or in a sleep of
\* the countdown to the reset (ota_manager.py line 149); or it has ended.
Suspended ==
    \/ pc = "periodic"
    \/ pc = "download" /\ idx > 1
    \/ pc = "reboot_wait"
    \/ pc = "task_ended"

\* main, lines 256-277: the tasks are created once verify_ota_commit has
\* returned; drain_laser_data only when the laser powers on.
StartTasks ==
    /\ Suspended
    /\ tasks = NoTasks
    /\ \E power_on \in BOOLEAN :
         tasks' = [ t \in GatedTasks |->
                      IF t = "drain_laser_data" /\ ~ power_on THEN "none" ELSE "gate" ]
    /\ UNCHANGED << disk, server, pc, updater, idx, attempts, ota_lock, history >>

\* lines 142, 174, 206: ota_lock.wait() returns while the gate is open.
\* drain_sensor_data (143-169) and send_to_thingsboard (207-236) then run
\* their iteration up to its closing sleep without suspending;
\* drain_laser_data suspends in laser.measure_and_log (line 176).
GatePass ==
    /\ Suspended
    /\ ota_lock
    /\ \E t \in GatedTasks :
         /\ tasks[t] = "gate"
         /\ tasks' = [ tasks EXCEPT ![t] = IF t = "drain_laser_data" THEN "measure"
                                          ELSE "sleep" ]
    /\ UNCHANGED << disk, server, pc, updater, idx, attempts, ota_lock, history >>

\* drain_laser_data, lines 176-192: the measurement is back; the task fills
\* snapshot_ref and latest_sensor_data and logs the entry
LaserResume ==
    /\ Suspended
    /\ tasks["drain_laser_data"] = "measure"
    /\ tasks' = [ tasks EXCEPT !["drain_laser_data"] = "sleep" ]
    /\ UNCHANGED << disk, server, pc, updater, idx, attempts, ota_lock, history >>

\* lines 169, 196, 236: the sleep is over, the loop starts again
Wake ==
    /\ Suspended
    /\ \E t \in GatedTasks :
         /\ tasks[t] = "sleep"
         /\ tasks' = [ tasks EXCEPT ![t] = "gate" ]
    /\ UNCHANGED << disk, server, pc, updater, idx, attempts, ota_lock, history >>

GateNext ==
    \/ Next
    \/ StartTasks \/ GatePass \/ LaserResume \/ Wake

GateSpec == CheckInit /\ [][GateNext]_vars

\* ------------------------------------------------------------ hash fidelity
\* The byte sequences of length up to n over CR, LF and one other byte.
RECURSIVE Contents(_)
Contents(n) ==
    IF n = 0 THEN { << >> }
    ELSE Contents(n - 1)
           \cup { << b >> \o c : b \in { CR, LF, 1 }, c \in Contents(n - 1) }

\* A source file with path p and bytes content is put in the manifest by
\* generate_manifest (collect_files, line 95) and, unmodified, fetched and
\* staged by download_update (ota.py lines 159-165): the session holds the
\* recorded hash, staging holds the bytes the device wrote, and pre keeps
\* the source bytes.
HashFile ==
    /\ pc = "boot"
    /\ \E p \in Paths, content \in Contents(MaxLen) :
         /\ hashes' = [ q \in { p } |-> sha256sum(q, content) ]
         /\ staged' = [ NoTree EXCEPT ![p] = StagedBytes(p, content) ]
         /\ pre' = [ NoTree EXCEPT ![p] = content ]
    /\ UNCHANGED << live, backup, stagedManifest, flagPending, flagCommit, server,
                    pc, manifest, files, sizes, remote_version, progress, idx,
                    attempts, ota_lock, owed, faults, dlFailed, vExit,
                    rollbackCalls, call, tasks, first,
                    resets >>

HashNext == HashFile

HashSpec == CheckInit /\ [][HashNext]_vars

\* ================================================================= claims
RolledBack == { "apply_rolled_back", "aip_rolled_back", "verify_rolled_back" }

\* The non-excluded files of the manifest.
Firmware == Range(serverFiles) \ user_excluded

\* The bytes apply_update installs for path p of release r.
InstalledBytes(r, p) == StagedBytes(p, RepoBytes(r, p))

\* The live tree and the version record are those of version v.
NewFirmwareLive(v) ==
    /\ _get_local_version(live) = v
    /\ \A p \in Firmware : live[p] = InstalledBytes(v[2], p)

\* C1 (as claimed): apply_update overwrites an existing live file with its
\* staged copy only when the backup directory holds a copy of the file's
\* current content, also when the backup write failed.
C1_BackupBeforeOverwrite ==
    [][ (pc = "apply_copy" /\ pc' = "apply_loop" /\ live[files[idx]] # NoFile)
            => backup[files[idx]] = live[files[idx]] ]_vars

\* C2 (as claimed): when the copy of the (K+1)-th file fails, after rollback()
\* each of the K+1 files handled so far has its pre-update content, whether
\* or not it existed before, and the excluded file was neither written nor
\* backed up.
C2_RollbackRestoresAll ==
    pc = "apply_rolled_back" =>
        /\ \A i \in 1..idx :
             files[i] \notin user_excluded => live[files[i]] = pre[files[i]]
        /\ live["config.json"] = pre["config.json"]
        /\ backup["config.json"] = NoFile

\* C3 (as claimed): when the copy of the (K+1)-th file fails, after rollback()
\* every manifest file after position K+1 has the live content it had before
\* the pass, whatever the backup directory held, and the version record is
\* unchanged.
C3_UnreachedFilesUntouched ==
    pc = "apply_rolled_back" =>
        /\ \A i \in (idx + 1)..Len(files) : live[files[i]] = pre[files[i]]
        /\ _get_local_version(live) = _get_local_version(pre)

\* C4 (as claimed): when verify_ota_commit ends after no attempt reached the
\* update server, every non-excluded file the applied update overwrote that
\* has a backup copy has been restored to that copy.
C4_UnreachableServerReverts ==
    (pc = "verify_finally" /\ vExit = "exhausted" /\ manifest = EmptyManifest) =>
        \A p \in Firmware : backup[p] # NoFile => live[p] = backup[p]

\* C5: a verify_ota_commit run in which no attempt verified the version (and
\* none raised) used exactly 12 attempts, called rollback() exactly once and
\* only after the 12th attempt, and ends with neither flag present.
C5_ExhaustionRollsBackOnce ==
    /\ (pc = "verify_finally" /\ vExit \notin { "success", "exception" }) =>
           /\ attempts = max_attempts
           /\ rollbackCalls = 1
           /\ ~ flagPending /\ ~ flagCommit
    /\ rollbackCalls > 0 => (attempts = max_attempts /\ rollbackCalls = 1)

C5_Witness ==
    /\ pc = "verify_finally" /\ vExit = "exhausted"
    /\ attempts = 12 /\ rollbackCalls = 1
    /\ ~ flagPending /\ ~ flagCommit

\* C6: once a file of a download session has failed its hash check or its
\* transfer, download_update returns False, and no step of that session
\* writes the pending flag or changes the live tree (version record
\* included) or the backup directory.
C6_FailedDownloadTouchesNothing ==
    [][ /\ dlFailed' => pc' = "download_failed"
        /\ (pc \in { "download", "download_failed", "download_ok" }
              /\ (dlFailed \/ dlFailed'))
             => (live' = live /\ backup' = backup /\ ~ flagPending') ]_vars

C6_Witness ==
    /\ pc = "download_failed" /\ dlFailed
    /\ idx = Len(files)
    /\ staged[files[idx]] = Garbage
    /\ ~ flagPending

\* C7: every file apply_update copies into the live tree is the staged file,
\* and its hash is the one the staged manifest copy records for that path.
C7_OnlyVerifiedContentApplied ==
    [][ (pc = "apply_copy" /\ pc' = "apply_loop") =>
          /\ live'[files[idx]] = staged[files[idx]]
          /\ files[idx] \in DOMAIN stagedManifest.hashes
          /\ _sha256(staged[files[idx]]) = stagedManifest.hashes[files[idx]] ]_vars

C7_Witness ==
    /\ pc = "apply_loop" /\ idx > Len(files)
    /\ faults > 0
    /\ \A p \in Firmware \ { "version.txt" } :
         live[p] = staged[p] /\ _sha256(live[p]) = stagedManifest.hashes[p]

\* C8 (as claimed): once apply_update has written the new version, the device
\* never runs the new firmware with no flag present and no commit
\* verification started since.
C8_CommitCheckNeverSkipped ==
    (pc = "periodic" /\ ~ flagPending /\ ~ flagCommit /\ owed # << >>) =>
        ~ NewFirmwareLive(owed)

\* C9 (as claimed): the pending flag and the commit-pending flag are never
\* both present.
C9_FlagsMutuallyExclusive == ~ (flagPending /\ flagCommit)

\* C10 (as claimed): whenever rollback() has returned, neither flag exists.
C10_RollbackClearsBothFlags ==
    pc \in RolledBack => (~ flagPending /\ ~ flagCommit)

\* C10 (amended): whenever rollback() has returned the pending flag does not
\* exist, and once the cleanup_flags() call that follows it in
\* apply_ota_if_pending and verify_ota_commit has returned neither flag
\* exists.
C10_RollbackThenCleanupClearsFlags ==
    /\ pc \in RolledBack => ~ flagPending
    /\ (pc = "aip_flags_cleared" \/ (pc = "verify_finally" /\ vExit = "exhausted"))
          => (~ flagPending /\ ~ flagCommit)

C10_Witness ==
    pc = "verify_rolled_back" /\ rollbackCalls = 1 /\ flagCommit /\ ~ flagPending

\* C11 (as claimed): whenever apply_update returns True, the version record
\* is the version of the staged manifest, every non-excluded manifest file in
\* the live tree has the content (the hash) of its staged copy, the pending
\* flag is absent, the commit-pending flag is present and the staging tree
\* is removed.
C11_ApplyTruePostcondition ==
    [][ (pc = "apply_rename" /\ pc' = "boot" /\ faults' = faults) =>
          /\ _get_local_version(live') = remote_version
          /\ \A p \in Range(files) \ user_excluded : _sha256(live'[p]) = hashes[p]
          /\ ~ flagPending' /\ flagCommit'
          /\ staged' = NoTree /\ stagedManifest' = AbsentManifest ]_vars

\* The update is complete: both flags absent, the version record is the
\* published version.
UpdateCommitted ==
    /\ pc = "periodic"
    /\ ~ flagPending /\ ~ flagCommit
    /\ _get_local_version(live) = Version(serverRel)

\* C12: in a nominal run from a local version that differs from the published
\* one, the device stages the release and boots with the pending flag, then
\* applies it and boots with the commit-pending flag and the new version
\* record, then reaches for good a state with both flags absent and the
\* version record equal to the manifest version; rollback() is never
\* invoked on the way.
C12_EndToEnd ==
    /\ [](pc \notin RolledBack /\ pc # "apply_failed")
    /\ <>(pc = "boot" /\ flagPending /\ ~ flagCommit
            /\ stagedManifest = Manifest(serverRel, serverFiles))
    /\ (pc = "boot" /\ flagPending)
         ~> (pc = "boot" /\ flagCommit /\ ~ flagPending
               /\ _get_local_version(live) = Version(serverRel))
    /\ (pc = "boot" /\ flagCommit) ~> UpdateCommitted
    /\ <>[]UpdateCommitted

C12_Witness ==
    /\ UpdateCommitted
    /\ NewFirmwareLive(Version(serverRel))
    /\ backup["main.py"] = RepoBytes(1, "main.py")
    /\ attempts = 0 /\ ota_lock

C14_ExcludedPathsUntouched ==
    [][ \A p \in { "config.json", "output_info.txt" } \cap Paths :
          live'[p] = live[p] /\ backup'[p] = backup[p] ]_vars

C14_Witness ==
    /\ pc = "aip_rolled_back"
    /\ "config.json" \in Range(files)
    /\ staged["config.json"] \notin { NoFile, live["config.json"] }
    /\ idx > 2 /\ files[2] = "config.json"
    /\ live["main.py"] = backup["main.py"]
    /\ live["config.json"] = pre["config.json"]
    /\ backup["config.json"] = NoFile

\* C15: a periodic cycle starts download_update exactly when the check
\* returned True, free memory is at least MIN_FREE_MEM and free flash is at
\* least the required bytes plus FLASH_BUFFER: one byte less of flash (or of
\* memory) and the download is not started, exactly that much and it is.
C15_ResourceGate ==
    [][ (pc = "periodic" /\ serverRel' = serverRel) =>
          /\ call'.made
          /\ call'.ret => call'.required = get_required_flash_bytes(files', sizes')
          /\ pc' = "download" <=>
                /\ call'.ret
                /\ call'.mem_free >= MIN_FREE_MEM
                /\ call'.free >= call'.required + FLASH_BUFFER ]_vars

C15_Witness ==
    /\ pc = "download" /\ idx = 1 /\ ~ ota_lock
    /\ call.made /\ call.ret
    /\ call.required > 0
    /\ call.mem_free = MIN_FREE_MEM
    /\ call.free = call.required + FLASH_BUFFER

\* What the observed check fetched.
Got == Fetch(call.responses)

\* The observed check fetched a JSON object.
FetchedObject == call.made /\ Got.status = "200" /\ Got.body.json = "dict"

\* The sum of the size fields of all entries of manifest doc.
SumSizes(doc) ==
    LET RECURSIVE Sum(_)
        Sum(i) == IF i = 0 THEN 0
                  ELSE Sum(i - 1) + (IF doc.files[i] \in DOMAIN doc.sizes
                                     THEN doc.sizes[doc.files[i]] ELSE 0)
    IN Sum(Len(doc.files))

\* C16 (as claimed): after a check that found an update, the required flash
\* is twice the sum of the size fields of all file entries of the fetched
\* manifest, also of the entries that lack a sha256 or a size field.
C16_RequiredIsTwiceAllSizes ==
    (call.made /\ call.ret) => call.required = 2 * SumSizes(Got.body.doc)

\* The number of requests of the observed check that raised before its first
\* response (all three when none came).
LeadingErrors ==
    CHOOSE k \in 0..3 :
        /\ \A i \in 1..k : call.responses[i].status = "error"
        /\ k = 3 \/ call.responses[k + 1].status # "error"

\* C17: one check makes at most 3 manifest requests: a request that raises
\* is retried until 3 are used, and then the check returns False; the first
\* response ends the requests, and when its status is not 200 the check
\* returns False.
C17_AtMostThreeRequests ==
    call.made =>
        /\ call.requests \in 1..3
        /\ call.requests = IF LeadingErrors = 3 THEN 3 ELSE LeadingErrors + 1
        /\ LeadingErrors = 3 => ~ call.ret
        /\ (LeadingErrors < 3 /\ call.responses[LeadingErrors + 1].status # "200")
              => ~ call.ret

C17_Witness ==
    /\ call.made /\ ~ call.ret /\ call.requests = 3
    /\ call.responses[1].status = "error" /\ call.responses[2].status = "error"
    /\ call.responses[3].status = "404"

\* C18 (as claimed): a check that fetched a manifest object whose version is
\* missing, empty or no string, or whose files section is missing, null, no
\* map, or a map with a malformed entry, returns False.
C18_MalformedManifestRejected ==
    (FetchedObject
       /\ \/ Got.body.versionType # "str"
          \/ Got.body.doc.version = << >>
          \/ Got.body.filesType # "map"
          \/ Got.body.entryType # "dict")
    => ~ call.ret

\* The entries of manifest doc that lack the sha256 or the size field.
Incomplete(doc) ==
    { p \in Range(doc.files) : p \notin DOMAIN doc.hashes \/ p \notin DOMAIN doc.sizes }

\* C19 (as claimed): a check that fetched a manifest in which some file entry
\* lacks its sha256 or its size returns False, and the session's file list is
\* never a strict subset of the manifest's paths.
C19_NoPartialManifest ==
    (FetchedObject /\ Got.body.filesType = "map" /\ Incomplete(Got.body.doc) # { })
    => /\ ~ call.ret
       /\ ~ (Range(files) \subseteq Range(Got.body.doc.files)
               /\ Range(files) # Range(Got.body.doc.files))

\* The observed check failed: no response, an error status, a body that is no
\* JSON object, or a manifest with an invalid version or files section.
CheckFailed ==
    /\ call.made
    /\ \/ ~ FetchedObject
       \/ Got.body.versionType # "str"
       \/ Got.body.doc.version = << >>
       \/ Got.body.filesType = "list"
       \/ Got.body.entryType # "dict"

\* C20 (as claimed): after a check that failed, hashes, sizes and the file
\* list of the session are empty, whatever an earlier check left in them;
\* after a check that accepted a manifest (one whose entries are complete)
\* they hold exactly its entries.
C20_FailureClearsSession ==
    /\ CheckFailed =>
         /\ files = << >>
         /\ hashes = EmptyManifest.hashes
         /\ sizes = EmptyManifest.sizes
    /\ (call.made /\ ~ CheckFailed /\ Incomplete(Got.body.doc) = { }) =>
         /\ Range(files) = Range(Got.body.doc.files)
         /\ hashes = Got.body.doc.hashes
         /\ sizes = Got.body.doc.sizes

\* The observed check fetched a manifest object with a version string and a
\* files map of well-formed entries.
FetchedManifest ==
    /\ FetchedObject
    /\ Got.body.versionType = "str" /\ Got.body.doc.version # << >>
    /\ Got.body.filesType = "map" /\ Got.body.entryType = "dict"

\* C21: a check that fetched a manifest returns True exactly when the
\* manifest's version differs from the local version record; the versions
\* are not ordered, so a version below the installed one, or one of another
\* format, is reported as an update too.
C21_VersionInequality ==
    FetchedManifest =>
        (call.ret <=> Got.body.doc.version # _get_local_version(live))

C21_Witness ==
    /\ FetchedManifest /\ call.ret
    /\ Got.body.doc.version = Version(0)
    /\ _get_local_version(live) = Version(1)

\* The step is a periodic check that fetched the published manifest, whose
\* version is the installed one.
UpToDateCheck ==
    /\ pc = "periodic"
    /\ server' = server
    /\ manifest' = Manifest(serverRel, serverFiles)
    /\ remote_version' = _get_local_version(live)

\* What the next check returns and leaves in the session when the published
\* manifest and the installed version are still the same.
CheckAgain ==
    check_for_update(Served(serverRel, serverFiles), Session,
                     _get_local_version(live))

\* C22: a periodic check of a device whose installed version equals the
\* published one returns False: no download starts, staging, live tree, flags
\* and gate stay as they were; and a second check right after it returns
\* False again and leaves the session as the first one left it.
C22_UpToDateCheckIdempotent ==
    [][ UpToDateCheck =>
          /\ pc' = "periodic"
          /\ disk' = disk
          /\ ota_lock' = ota_lock
          /\ [ CheckAgain' EXCEPT !.requests = 1 ] =
                Outcome(manifest', files', hashes', sizes', remote_version',
                        FALSE, 1) ]_vars

C22_Witness ==
    /\ pc = "periodic" /\ ota_lock
    /\ manifest = Manifest(serverRel, serverFiles)
    /\ remote_version = _get_local_version(live)
    /\ remote_version = Version(2)
    /\ ~ flagPending /\ ~ flagCommit
    /\ ~ CheckAgain.ret

\* The listed files before position i are staged with the bytes the session's
\* hashes name.
StagedUpTo(i) ==
    \A j \in 1..(i - 1) : _sha256(staged[files[j]]) = hashes[files[j]]

\* C23: download_update fetches the files in the order of the file list, one
\* position at a time: a step of the download (a step of the device that is
\* no power loss) writes at most the file at the current position, the
\* files before it are already staged and verified, and the position
\* advances by one exactly when the file passed.  After the first failing
\* file the call is over: nothing more is fetched or staged.
C23_InOrderStopAtFirstFailure ==
    [][ /\ (pc = "download" /\ pc' # "boot" /\ server' = server) =>
            /\ StagedUpTo(idx)
            /\ \A p \in Paths : staged'[p] # staged[p] =>
                   idx <= Len(files) /\ p = files[idx]
            /\ idx' \in { idx, idx + 1 }
            /\ idx' = idx + 1 <=> (pc' = "download" /\ ~ dlFailed')
            /\ dlFailed' => pc' = "download_failed" /\ idx' = idx
        /\ (pc = "download_failed" /\ pc' # "boot" /\ server' = server) =>
            /\ staged' = staged /\ stagedManifest' = stagedManifest
            /\ pc' = "periodic" ]_vars

C23_Witness ==
    /\ pc = "download_failed" /\ dlFailed
    /\ Len(files) >= 3 /\ idx = 2
    /\ _sha256(staged[files[1]]) = hashes[files[1]]
    /\ staged[files[2]] = Garbage
    /\ staged[files[3]] = NoFile

\* a / b rounded to the nearest integer (a, b > 0; a half rounds up).
RoundDiv(a, b) == (2 * a + b) \div (2 * b)

\* C24 (as claimed): after the i-th of N files of a download was fetched and
\* verified, the progress is round(100 * i / N).
C24_ProgressIsRounded ==
    [][ (pc = "download" /\ idx' = idx + 1) =>
            progress' = RoundDiv(100 * idx, Len(files)) ]_vars

\* C25 (as claimed): the progress of the updater is always in 0..100, and
\* from the check that starts a download session to the session's end it
\* never decreases, also in a session that follows, on the same updater, one
\* that failed part-way.
C25_ProgressMonotone ==
    [][ /\ progress' \in 0..100
        /\ (pc \in { "periodic", "download" }
              /\ pc' \in { "download", "download_failed", "download_ok" })
           => progress' >= progress ]_vars

\* Staging holds the copy of the session's manifest and every listed file
\* with the bytes the manifest's hash names.
StagingComplete ==
    /\ stagedManifest = manifest
    /\ \A p \in Range(files) : _sha256(staged[p]) = hashes[p]

\* C26: download_update returns True only when every listed file is staged
\* with a matching hash and the manifest copy is written; the pending flag
\* is written only after such a return, so whenever it is written staging
\* holds the manifest copy and all its files.
C26_FlagOnlyAfterCompleteStaging ==
    [][ /\ pc' = "download_ok" => (pc \in { "download", "download_ok" }
                                      /\ StagingComplete')
        /\ (flagPending' /\ ~ flagPending) =>
              (pc = "download_ok" /\ StagingComplete /\ StagingComplete') ]_vars

C26_Witness ==
    /\ pc = "reboot_wait" /\ flagPending
    /\ Len(files) = 4 /\ StagingComplete
    /\ \A p \in Range(files) : staged[p] = RepoBytes(2, p)

\* The positions of the download, apply and commit-verification phases.
DownloadPhase == { "download", "download_failed", "download_ok", "reboot_wait" }
ApplyPhase ==
    { "apply_load", "apply_loop", "apply_copy", "apply_failed", "apply_rolled_back",
      "aip_rolled_back", "aip_flags_cleared", "apply_cleanup", "apply_rename" }
VerifyPhase == { "verify_loop", "verify_rolled_back", "verify_finally" }

\* C27 (as claimed): while a download, apply or commit-verification phase is
\* active the gate ota_lock is closed.
C27_GateClosedInPhases ==
    pc \in DownloadPhase \cup ApplyPhase \cup VerifyPhase => ~ ota_lock

\* Task t does the work of its iteration in this step: it reads the sensor
\* snapshot or fills the shared sensor data, logs or publishes, and reaches
\* the sleep that ends the iteration.
Works(t) == tasks[t] \in { "gate", "measure" } /\ tasks'[t] = "sleep"

\* C28 (as claimed): no gated task does the work of an iteration while the
\* gate is closed, also not a task that passed the gate before it closed.
C28_NoGatedWorkWhileClosed ==
    [][ \A t \in GatedTasks : Works(t) => ota_lock ]_vars

\* The step is a check of the periodic task: it assigns the session fields
\* or goes on to the download.
PeriodicCheck ==
    /\ pc = "periodic" /\ pc' \in { "periodic", "download" }
    /\ pc' = "download" \/ updater' # updater

\* C29 (as claimed): the periodic task starts no check, and so no download,
\* while a pending or a commit-pending flag is present.
C29_NoCheckWhileFlagged ==
    [][ PeriodicCheck => ~ flagPending /\ ~ flagCommit ]_vars

\* C30: no exception leaves check_for_update, download_update, apply_update
\* or rollback: after every injected failure (a request that raises, a body
\* that does not decode, a manifest copy that does not load, a failing file
\* write, a missing backup copy) the method has returned and the boot
\* sequence or the periodic task is at the position after the call.
C30_EngineNeverRaises == pc # "raised"

C30_Witness ==
    /\ pc = "download_failed" /\ dlFailed
    /\ idx <= Len(files) /\ staged[files[idx]] = NoFile
    /\ faults = 0

\* C31: for every content and for text and binary paths alike, the hash the
\* device computes of the file it staged from an unmodified source file is
\* the hash the manifest generator recorded for that file; a text file is
\* staged with each CR LF replaced by LF, a binary file byte for byte.
C31_HashFidelity ==
    \A p \in DOMAIN hashes :
        /\ _sha256(staged[p]) = hashes[p]
        /\ staged[p] = IF p = "logo.bin" THEN pre[p] ELSE ReplaceCRLF(pre[p])

C31_Witness ==
    /\ DOMAIN hashes = { "main.py" }
    /\ pre["main.py"] = << CR, CR, LF >>
    /\ staged["main.py"] = << CR, LF >>
    /\ _sha256(staged["main.py"]) = hashes["main.py"]

C33_VerifyEndsWithoutCommitFlag ==
    /\ attempts <= max_attempts
    /\ pc = "verify_finally" => ~ flagCommit

\* C34 (as claimed): a periodic cycle that does not end in a reboot is not
\* fatal: whatever made it stop (no connectivity, no update, too little
\* memory or flash, a failed download, a failed flag write), the task is
\* back in its loop with the gate open and no pending flag written, and
\* starts a new check in a later cycle.
C34_CycleFailureNotFatal ==
    [][ (pc \in { "periodic", "download_failed", "download_ok" } /\ pc' # "boot")
        => /\ pc' \in { "periodic", "download", "reboot_wait" }
           /\ pc' = "periodic" => (ota_lock' /\ flagPending' = flagPending) ]_vars

\* The live firmware and the version record are those of release r: every
\* non-excluded manifest file has the bytes release r installs (the shipped
\* release 1 may lack logo.bin), and the version record names r.
FirmwareOf(r) ==
    /\ _get_local_version(live) = Version(r)
    /\ \A p \in Firmware :
         \/ live[p] = InstalledBytes(r, p)
         \/ r = 1 /\ p = "logo.bin" /\ live[p] = NoFile

\* C35 (as claimed): whenever no flag is present and no OTA phase is active,
\* the non-excluded manifest files of the live tree and the version record
\* are all those of one release, the one before the update or the applied
\* one, never a mixture.
C35_VersionConsistent ==
    (pc = "periodic" /\ ~ flagPending /\ ~ flagCommit) =>
        \E r \in 1..MaxRelease : FirmwareOf(r)


\* C36: while the pending flag is present, the backup step of an apply pass
\* (a first pass or one that runs again after a power loss) leaves a backup
\* copy that holds the file's content from before the first pass as it is.
C36_BackupKeepsOriginal ==
    [][ (pc = "apply_loop" /\ pc' = "apply_copy" /\ flagPending
           /\ first[files[idx]] # NoFile
           /\ backup[files[idx]] = first[files[idx]])
        => backup'[files[idx]] = first[files[idx]] ]_vars


\* C37: a verify_ota_commit attempt counts as success only with a manifest in
\* the session that the server serves, fetched by check_for_update, whose
\* version string is not empty and equals the local version record.
C37_SuccessNeedsFetchedManifest ==
    [][ (pc = "verify_loop" /\ pc' = "verify_finally" /\ vExit' = "success")
        => /\ \E r \in 1..MaxRelease : manifest' = Manifest(r, serverFiles)
           /\ remote_version' = manifest'.version
           /\ remote_version' # << >>
           /\ remote_version' = _get_local_version(live) ]_vars


\* The staged manifest copy is missing or cannot be parsed.
StagedManifestUnusable ==
    \/ stagedManifest.version \in { NoFile, Garbage }
    \/ ~ (Range(stagedManifest.files) \subseteq
            (DOMAIN stagedManifest.hashes) \cap (DOMAIN stagedManifest.sizes))

\* C38: with the pending flag present at boot and the staged manifest copy
\* missing or unparseable, apply_update does not enter its file loop and
\* returns False, the live tree (the version record included) stays as the
\* pass found it through the rollback() and cleanup_flags() calls of
\* apply_ota_if_pending, and after them neither flag exists.
C38_UnusableManifestAborts ==
    StagedManifestUnusable =>
        /\ pc \notin { "apply_loop", "apply_copy", "apply_rolled_back" }
        /\ pc \in { "apply_failed", "aip_rolled_back", "aip_flags_cleared" }
             => live = pre
        /\ pc = "aip_flags_cleared" => (~ flagPending /\ ~ flagCommit)

\* C38 witness: apply_ota_if_pending found the pending flag and no staged
\* manifest copy beside backup copies that differ from the live files, and
\* has made its rollback() and cleanup_flags() calls.
C38_Witness ==
    /\ pc = "aip_flags_cleared"
    /\ stagedManifest = AbsentManifest
    /\ first # NoTree
    /\ \E p \in Paths : backup[p] # NoFile /\ backup[p] # live[p]
    /\ live = pre
    /\ ~ flagPending /\ ~ flagCommit


\* apply_ota_if_pending has reset the device at most twice since the pending
\* flag was created.
ResetsBounded == resets <= 2

\* The boot sequence has ended (the periodic task is in its loop) and a flag
\* is present.
BootEndedFlagged == pc = "periodic" /\ (flagPending \/ flagCommit)

\* C39: from a boot with a flag present and with no new download creating
\* the pending flag again, apply_ota_if_pending resets the device at most
\* twice, and the boot sequence ends with no flag present.
C39_NoRebootLoop == ResetsBounded /\ ~ BootEndedFlagged

====
